---- MODULE Spec2Model ----
(***************************************************************************)
(* Model of the Balanced News backend gateway (backend/src/index.js): the  *)
(* GET /feed handler with its coordinate validation, cache lookup, source  *)
(* selection, article fetch, card assembly loop and cache store.           *)
(*                                                                         *)
(* Two specifications share the definitions of the handler's code:         *)
(*   Spec      the gateway: concurrent /feed requests on one cache, one    *)
(*             action per stretch of the handler between two awaits;       *)
(*   LoopSpec  the card assembly loop of lines 86-123 run one iteration    *)
(*             per step over bounded source and article lists.             *)
(***************************************************************************)
EXTENDS Integers, Sequences, FiniteSets, TLC

(***************************************************************************)
(* JavaScript values.  A string is a TLA+ string; the text of a query      *)
(* parameter, which parseFloat reads character by character, is a sequence *)
(* of one-character strings.  undefined and null are two distinct values.  *)
(***************************************************************************)
Undefined == "<undefined>"
Null == "<null>"

(* A number is an integer count of ten-thousandths, or NaN. *)
NaN == [nan |-> TRUE, v |-> 0]
Num(v) == [nan |-> FALSE, v |-> v]
isNaN(n) == n.nan

Digits == <<"0", "1", "2", "3", "4", "5", "6", "7", "8", "9">>
IsDigit(c) == \E d \in 1..Len(Digits) : Digits[d] = c
DigitVal(c) == (CHOOSE d \in 1..Len(Digits) : Digits[d] = c) - 1
IsSpace(c) == c = " "

(* Length of the run of digits (of spaces) of s that starts at position p. *)
RECURSIVE DigitRun(_, _)
DigitRun(s, p) ==
  IF p <= Len(s) /\ IsDigit(s[p]) THEN 1 + DigitRun(s, p + 1) ELSE 0

RECURSIVE SpaceRun(_, _)
SpaceRun(s, p) ==
  IF p <= Len(s) /\ IsSpace(s[p]) THEN 1 + SpaceRun(s, p + 1) ELSE 0

(* Value of the digits s[p..p+n-1] read as an integer. *)
RECURSIVE IntOf(_, _, _)
IntOf(s, p, n) ==
  IF n = 0 THEN 0 ELSE IntOf(s, p, n - 1) * 10 + DigitVal(s[p + n - 1])

(* Value, in ten-thousandths, of the fraction digits s[p..p+n-1]; the      *)
(* query texts of the model have at most four of them.                     *)
FracOf(s, p, n) ==
  LET d(k) == IF k <= n THEN DigitVal(s[p + k - 1]) ELSE 0
  IN  d(1) * 1000 + d(2) * 100 + d(3) * 10 + d(4)

(***************************************************************************)
(* parseFloat (index.js:44-45).  Its argument is first converted to a      *)
(* string: a missing query parameter (undefined) is read as the text       *)
(* "undefined".  Then leading white space is skipped, the longest prefix   *)
(* [+-] digits [. digits]  or  [+-] . digits  is read, whatever follows is *)
(* ignored, and no such prefix gives NaN.                                  *)
(***************************************************************************)
MissingParam == <<"u", "n", "d", "e", "f", "i", "n", "e", "d">>

parseFloat(s) ==
  LET p0   == 1 + SpaceRun(s, 1)
      sgn  == IF p0 <= Len(s) /\ s[p0] = "-" THEN -1 ELSE 1
      p1   == IF p0 <= Len(s) /\ s[p0] \in {"-", "+"} THEN p0 + 1 ELSE p0
      n1   == DigitRun(s, p1)
      dot  == p1 + n1 <= Len(s) /\ s[p1 + n1] = "."
      n2   == IF dot THEN DigitRun(s, p1 + n1 + 1) ELSE 0
  IN  IF n1 + n2 = 0 THEN NaN
      ELSE Num(sgn * (IntOf(s, p1, n1) * 10000 + FracOf(s, p1 + n1 + 1, n2)))

(***************************************************************************)
(* x.toFixed(3) (index.js:53): the sign of x and its magnitude rounded to  *)
(* thousandths.  A negative x keeps its "-" even when it rounds to 0.  The *)
(* query texts of the model have no 5 as fourth decimal, where the result  *)
(* would depend on the binary value of x.                                  *)
(***************************************************************************)
toFixed3(n) ==
  LET m == IF n.v < 0 THEN -n.v ELSE n.v
  IN  [neg |-> n.v < 0, thousandths |-> (m + 5) \div 10]

(* `feed:${x.toFixed(3)}:${y.toFixed(3)}` (index.js:53) *)
feedCacheKey(x, y) == <<"feed", toFixed3(x), toFixed3(y)>>

(***************************************************************************)
(* Sources (feed.js and sources.json, which index.js imports).  A source   *)
(* is a record {id, name, side, x, y}; the catalog is loaded once at       *)
(* start and never changes.  Coordinates are in ten-thousandths and lie   *)
(* in [-1, 1], as do the queries of the model.                             *)
(***************************************************************************)
SourceIds == <<"A", "B", "C", "D", "E">>
IdRank(id) == CHOOSE k \in 1..Len(SourceIds) : SourceIds[k] = id

SrcA == [id |-> "A", name |-> "Alpha",   side |-> "LEFT",   x |-> 0,      y |-> 0]
SrcB == [id |-> "B", name |-> "Bravo",   side |-> "RIGHT",  x |-> 10000,  y |-> 10000]
SrcC == [id |-> "C", name |-> "Charlie", side |-> "CENTER", x |-> 5000,   y |-> 0]
SrcD == [id |-> "D", name |-> "Delta",   side |-> "LEFT",   x |-> -10000, y |-> 5000]
SrcE == [id |-> "E", name |-> "Echo",    side |-> "RIGHT",  x |-> -10000, y |-> -5000]
AllSources == {SrcA, SrcB, SrcC, SrcD, SrcE}

(* The catalogs a process may have loaded: none, fewer than the slots, more. *)
Catalogs == {<<>>, <<SrcB, SrcC>>, <<SrcA, SrcB, SrcC, SrcD, SrcE>>}

(* Number of slots of the feed. *)
Slots == 4

Range(f) == {f[i] : i \in DOMAIN f}
Min(a, b) == IF a <= b THEN a ELSE b

Dist2(s, x, y) == (s.x - x.v) * (s.x - x.v) + (s.y - y.v) * (s.y - y.v)

(* s comes before t for the query (x, y): nearer, or as near with the smaller id. *)
Nearer(s, t, x, y) ==
  \/ Dist2(s, x, y) < Dist2(t, x, y)
  \/ Dist2(s, x, y) = Dist2(t, x, y) /\ IdRank(s.id) < IdRank(t.id)

(***************************************************************************)
(* pickSources(x, y): the Slots sources of the catalog nearest to (x, y),  *)
(* nearest first, ties by identifier; the whole catalog when it is         *)
(* smaller.                                                                *)
(***************************************************************************)
pickSources(cat, x, y) ==
  LET S == Range(cat)
      rank(s) == Cardinality({t \in S : Nearer(t, s, x, y)})
  IN  [k \in 1..Min(Slots, Cardinality(S)) |-> CHOOSE s \in S : rank(s) = k - 1]

(***************************************************************************)
(* Articles, as the news provider returns them: {source, title, url,       *)
(* urlToImage, publishedAt}, where source is null or {id} and a field the  *)
(* provider left out reads as undefined.                                   *)
(***************************************************************************)
Art(src, n, img) ==
  [source |-> src, title |-> "title-" \o n, url |-> "http://" \o n,
   urlToImage |-> img, publishedAt |-> "date-" \o n]
SourceRef(id) == [id |-> id]
(* The null a provider gives for the source of an article it cannot place. *)
NullSource == [null |-> TRUE]

ArtA1 == Art(SourceRef("A"), "a1", "img-a1")
ArtA2 == Art(SourceRef("A"), "a2", Null)
ArtB1 == Art(SourceRef("B"), "b1", Undefined)
ArtZ1 == Art(SourceRef("Z"), "z1", "img-z1")
ArtN1 == Art(NullSource, "n1", Null)

(***************************************************************************)
(* The card assembly loop (index.js:86-123).                               *)
(***************************************************************************)
(* articles.find(a => a.source && a.source.id === src.id) (index.js:90):   *)
(* the position of the first such article, 0 when there is none.           *)
Matches(a, src) == a.source # NullSource /\ a.source.id = src.id

(* Faulty variant: the last matching article instead of the first. *)
find_last(articles, src) ==
  IF \E i \in 1..Len(articles) : Matches(articles[i], src)
  THEN CHOOSE i \in 1..Len(articles) :
         /\ Matches(articles[i], src)
         /\ \A j \in (i + 1)..Len(articles) : ~Matches(articles[j], src)
  ELSE 0

find(articles, src) ==
  IF \E i \in 1..Len(articles) : Matches(articles[i], src)
  THEN CHOOSE i \in 1..Len(articles) :
         /\ Matches(articles[i], src)
         /\ \A j \in 1..(i - 1) : ~Matches(articles[j], src)
  ELSE 0

(* The card pushed for source src from article a (index.js:93-102, 110-119). *)
(* Faulty variant: the card reports the source of its article (art.source?.id). *)
Card_idFromArticle(a, src) ==
  [articleId   |-> a.url,
   title       |-> a.title,
   sourceId    |-> IF a.source = NullSource THEN Undefined ELSE a.source.id,
   sourceName  |-> src.name,
   imageUrl    |-> a.urlToImage,
   url         |-> a.url,
   publishedAt |-> a.publishedAt,
   side        |-> src.side]

Card(a, src) ==
  [articleId   |-> a.url,
   title       |-> a.title,
   sourceId    |-> src.id,
   sourceName  |-> src.name,
   imageUrl    |-> a.urlToImage,
   url         |-> a.url,
   publishedAt |-> a.publishedAt,
   side        |-> src.side]

(* articles[cards.length % articles.length] (index.js:109), 1-based. *)
(* Faulty variant: always the first article (articles[0]). *)
fallbackIndex_first(cards, articles) == 1

fallbackIndex(cards, articles) == (Len(cards) % Len(articles)) + 1

(* One iteration of the loop: cards after the slot of src (index.js:88-123). *)
(* Faulty variant: the fallback is taken only when there are two articles or more  *)
(* (articles.length > 1).                                                  *)
loopBody_needsTwo(cards, src, articles) ==
  LET art == find(articles, src)
  IN  IF art # 0
      THEN Append(cards, Card(articles[art], src))
      ELSE IF Len(articles) > 1
           THEN Append(cards, Card(articles[fallbackIndex(cards, articles)], src))
           ELSE cards

(* Faulty variant: a matching article without an image is dropped and its slot left *)
(* empty (if (art) { if (art.urlToImage) cards.push(...) }).                *)
loopBody_skipNoImage(cards, src, articles) ==
  LET art == find(articles, src)
  IN  IF art # 0
      THEN IF articles[art].urlToImage \in {Null, Undefined}
           THEN cards
           ELSE Append(cards, Card(articles[art], src))
      ELSE IF Len(articles) > 0
           THEN Append(cards, Card(articles[fallbackIndex(cards, articles)], src))
           ELSE cards

loopBody(cards, src, articles) ==
  LET art == find(articles, src)
  IN  IF art # 0
      THEN Append(cards, Card(articles[art], src))
      ELSE IF Len(articles) > 0
           THEN Append(cards, Card(articles[fallbackIndex(cards, articles)], src))
           ELSE cards

(* The whole loop over sources[1..n], starting from cards = [] (index.js:86). *)
RECURSIVE loopUpTo(_, _, _)
loopUpTo(sources, articles, n) ==
  IF n = 0 THEN <<>>
  ELSE loopBody(loopUpTo(sources, articles, n - 1), sources[n], articles)

assembleCards(sources, articles) == loopUpTo(sources, articles, Len(sources))

(***************************************************************************)
(* JSON.stringify of the cards (index.js:129, and res.json at 132): a      *)
(* property whose value is undefined is left out, null is kept.  A JSON    *)
(* text is modelled by the value it denotes, so JSON.parse (index.js:60)   *)
(* gives back the text's value.                                            *)
(***************************************************************************)
stringifyObject(o) == [f \in {g \in DOMAIN o : o[g] # Undefined} |-> o[f]]
JSONstringify(list) == [i \in 1..Len(list) |-> stringifyObject(list[i])]
JSONparse(text) == text

(***************************************************************************)
(* The cache (cache.js): getCache gives the text stored under a key, or    *)
(* null; setCache stores a text under a key until it expires.              *)
(***************************************************************************)
Text(v) == [text |-> v]
NullText == [null |-> TRUE]

getCache(c, key) == IF key \in DOMAIN c THEN c[key] ELSE NullText
setCache(c, key, text) == [k \in DOMAIN c \cup {key} |-> IF k = key THEN text ELSE c[k]]
expire(c, key) == [k \in DOMAIN c \ {key} |-> c[k]]

(***************************************************************************)
(* State.                                                                  *)
(*   catalog  the source catalog the process loaded at start               *)
(*   cache    the cache (Redis): key -> stored text, Null when absent      *)
(*   req      the /feed requests in flight: for each, the place of its     *)
(*            handler (pc), its query, and the handler's locals            *)
(*   sources, articles, cards, pos, picks                                  *)
(*            the card assembly loop run step by step (LoopSpec): its      *)
(*            inputs, the cards pushed so far, the number of sources       *)
(*            handled, and for each handled slot what the loop chose       *)
(***************************************************************************)
VARIABLES catalog, cache, req, sources, articles, cards, pos, picks

loopVars == <<sources, articles, cards, pos, picks>>
vars == <<catalog, cache, req, sources, articles, cards, pos, picks>>

(***************************************************************************)
(* LoopSpec: the loop of index.js:86-123, one iteration per step.          *)
(***************************************************************************)
MaxArticles == 3

RECURSIVE SeqsUpTo(_, _)
SeqsUpTo(S, n) ==
  IF n = 0 THEN {<<>>}
  ELSE LET shorter == SeqsUpTo(S, n - 1)
       IN  shorter \cup {Append(q, e) : q \in {t \in shorter : Len(t) = n - 1}, e \in S}

IsInjective(q) == \A i, j \in 1..Len(q) : q[i] = q[j] => i = j

(* What pickSources can return when the handler goes on to the loop: the   *)
(* early return of index.js:69-71 leaves only non-empty lists, of at most  *)
(* Slots distinct sources.                                                 *)
LoopSourceLists == {q \in SeqsUpTo(AllSources, Slots) : q # <<>> /\ IsInjective(q)}

ArticleUniverse == {ArtA1, ArtA2, ArtB1, ArtZ1, ArtN1}
LoopArticleLists == SeqsUpTo(ArticleUniverse, MaxArticles)

(* What one iteration chose, read off the same tests as loopBody:          *)
(*   emitted  cards.length when the iteration began                        *)
(*   exact    whether find gave an article                                 *)
(*   index    the position in articles of the article used, 0 for none     *)
(*   cardAt   the position in cards of the card pushed, 0 for none         *)
slotPick(cs, src, arts) ==
  LET art == find(arts, src)
      after == loopBody(cs, src, arts)
  IN  [emitted |-> Len(cs),
       exact   |-> art # 0,
       index   |-> IF art # 0 THEN art
                   ELSE IF Len(arts) > 0 THEN fallbackIndex(cs, arts) ELSE 0,
       cardAt  |-> IF Len(after) > Len(cs) THEN Len(after) ELSE 0]

LoopInit ==
  /\ sources \in LoopSourceLists
  /\ articles \in LoopArticleLists
  /\ cards = <<>>
  /\ pos = 0
  /\ picks = <<>>
  /\ catalog = <<>>
  /\ cache = <<>>
  /\ req = <<>>

LoopStep ==
  /\ pos < Len(sources)
  /\ cards' = loopBody(cards, sources[pos + 1], articles)
  /\ picks' = Append(picks, slotPick(cards, sources[pos + 1], articles))
  /\ pos' = pos + 1
  /\ UNCHANGED <<sources, articles, catalog, cache, req>>

LoopNext == LoopStep

LoopSpec == LoopInit /\ [][LoopNext]_vars

LoopDone == pos = Len(sources)

(***************************************************************************)
(* Spec: the gateway.  A /feed handler runs from one await to the next in  *)
(* one step; the awaited call (getCache, getArticlesBySources, setCache)   *)
(* resolves or rejects in a later step, and other requests run in between. *)
(***************************************************************************)
NumReq == 2
Requests == 1..NumReq

(* Query texts of the model.  x: a missing parameter, 0 and 0.0004 (two    *)
(* numbers with the key "0.000"), and -0.1 after a space and before junk;  *)
(* y: the empty text and 1.                                                *)
XQueries ==
  {MissingParam, <<"0">>, <<".", "0", "0", "0", "4">>, <<" ", "-", ".", "1", "x">>}
YQueries == {<<>>, <<"1", ".">>}

(* What the news provider may answer: nothing, or a list with an article   *)
(* of no source, one without an image and two of the same source.          *)
ProviderLists == {<<>>, <<ArtN1, ArtB1, ArtA2, ArtA1>>}

Idle ==
  [pc |-> "idle", qx |-> <<>>, qy |-> <<>>, cacheKey |-> <<>>, cached |-> NullText,
   sources |-> <<>>, articles |-> <<>>, cards |-> <<>>, calls |-> {},
   status |-> 0, body |-> <<>>]

(* res.status(s).json(b): the handler has answered and returns. *)
respond(q, s, b) == [q EXCEPT !.pc = "done", !.status = s, !.body = b]

BadRequest == <<[error |-> "x and y required"]>>
ServerError == <<[error |-> "Failed to fetch articles"]>>

(* catch (e) of index.js:134-141 *)
catch(q) == respond(q, 500, ServerError)

(* Faulty variant: only x is validated (if (isNaN(x))). *)
feedStart_onlyX(q, qx, qy) ==
  LET x == parseFloat(qx)
      y == parseFloat(qy)
      q1 == [q EXCEPT !.qx = qx, !.qy = qy]
  IN  IF isNaN(x)
      THEN respond(q1, 400, BadRequest)
      ELSE [q1 EXCEPT !.pc = "getCache",
                      !.cacheKey = feedCacheKey(x, IF isNaN(y) THEN Num(0) ELSE y),
                      !.calls = @ \cup {"getCache"}]

(* index.js:43-57: parse the coordinates, reject them or look the key up. *)
feedStart(q, qx, qy) ==
  LET x == parseFloat(qx)
      y == parseFloat(qy)
      q1 == [q EXCEPT !.qx = qx, !.qy = qy]
  IN  IF isNaN(x) \/ isNaN(y)
      THEN respond(q1, 400, BadRequest)
      ELSE [q1 EXCEPT !.pc = "getCache", !.cacheKey = feedCacheKey(x, y),
                      !.calls = @ \cup {"getCache"}]

(* Faulty variant: the sources are selected before the cache is looked at. *)
afterGetCache_selectFirst(q, cat, text) ==
  LET srcs == pickSources(cat, parseFloat(q.qx), parseFloat(q.qy))
      q2 == [q EXCEPT !.cached = text, !.sources = srcs,
                      !.calls = @ \cup {"pickSources"}]
  IN  IF text # NullText
      THEN respond(q2, 200, JSONstringify(JSONparse(text.text)))
      ELSE IF Len(srcs) = 0
           THEN respond(q2, 200, JSONstringify(<<>>))
           ELSE [q2 EXCEPT !.pc = "getArticles",
                           !.calls = @ \cup {"getArticlesBySources"}]

(* Faulty variant: no early return for an empty source list (index.js:69-71 left out). *)
afterGetCache_noEarlyReturn(q, cat, text) ==
  LET q1 == [q EXCEPT !.cached = text]
      srcs == pickSources(cat, parseFloat(q.qx), parseFloat(q.qy))
      q2 == [q1 EXCEPT !.sources = srcs, !.calls = @ \cup {"pickSources"}]
  IN  IF text # NullText
      THEN respond(q1, 200, JSONstringify(JSONparse(text.text)))
      ELSE [q2 EXCEPT !.pc = "getArticles",
                      !.calls = @ \cup {"getArticlesBySources"}]

(* index.js:57-74: the cache answered with text: serve it, or select the   *)
(* sources and ask for their articles.                                     *)
afterGetCache(q, cat, text) ==
  LET q1 == [q EXCEPT !.cached = text]
      srcs == pickSources(cat, parseFloat(q.qx), parseFloat(q.qy))
      q2 == [q1 EXCEPT !.sources = srcs, !.calls = @ \cup {"pickSources"}]
  IN  IF text # NullText
      THEN respond(q1, 200, JSONstringify(JSONparse(text.text)))
      ELSE IF Len(srcs) = 0
           THEN respond(q2, 200, JSONstringify(<<>>))
           ELSE [q2 EXCEPT !.pc = "getArticles",
                           !.calls = @ \cup {"getArticlesBySources"}]

(* Faulty variant: the cards are stored whether or not there are any. *)
afterGetArticles_alwaysStore(q, arts) ==
  LET cs == assembleCards(q.sources, arts)
      q1 == [q EXCEPT !.articles = arts, !.cards = cs]
  IN  [q1 EXCEPT !.pc = "setCache", !.calls = @ \cup {"setCache"}]

(* index.js:74-129: the provider answered with arts: assemble the cards,   *)
(* then store them when there are any.                                     *)
afterGetArticles(q, arts) ==
  LET cs == assembleCards(q.sources, arts)
      q1 == [q EXCEPT !.articles = arts, !.cards = cs]
  IN  IF Len(cs) > 0
      THEN [q1 EXCEPT !.pc = "setCache", !.calls = @ \cup {"setCache"}]
      ELSE respond(q1, 200, JSONstringify(cs))

(* index.js:132 *)
afterSetCache(q) == respond(q, 200, JSONstringify(q.cards))

FeedRequest(r, qx, qy) ==
  /\ req[r].pc = "idle"
  /\ req' = [req EXCEPT ![r] = feedStart(req[r], qx, qy)]
  /\ UNCHANGED <<catalog, cache>>
  /\ UNCHANGED loopVars

GetCacheResolves(r) ==
  /\ req[r].pc = "getCache"
  /\ req' = [req EXCEPT ![r] = afterGetCache(req[r], catalog, getCache(cache, req[r].cacheKey))]
  /\ UNCHANGED <<catalog, cache>>
  /\ UNCHANGED loopVars

GetArticlesResolves(r, arts) ==
  /\ req[r].pc = "getArticles"
  /\ req' = [req EXCEPT ![r] = afterGetArticles(req[r], arts)]
  /\ UNCHANGED <<catalog, cache>>
  /\ UNCHANGED loopVars

SetCacheResolves(r) ==
  /\ req[r].pc = "setCache"
  /\ cache' = setCache(cache, req[r].cacheKey, Text(JSONstringify(req[r].cards)))
  /\ req' = [req EXCEPT ![r] = afterSetCache(req[r])]
  /\ UNCHANGED catalog
  /\ UNCHANGED loopVars

(* An awaited call rejects: the handler's catch answers 500.  A setCache   *)
(* that rejects may or may not have stored its text.                       *)
AwaitRejects(r) ==
  /\ req[r].pc \in {"getCache", "getArticles", "setCache"}
  /\ req' = [req EXCEPT ![r] = catch(req[r])]
  /\ \/ UNCHANGED cache
     \/ /\ req[r].pc = "setCache"
        /\ cache' = setCache(cache, req[r].cacheKey, Text(JSONstringify(req[r].cards)))
  /\ UNCHANGED catalog
  /\ UNCHANGED loopVars

(* The response is sent and the handler's locals are gone. *)
Finish(r) ==
  /\ req[r].pc = "done"
  /\ req' = [req EXCEPT ![r] = Idle]
  /\ UNCHANGED <<catalog, cache>>
  /\ UNCHANGED loopVars

(* An entry reaches the end of its time to live (1800 s, index.js:129). *)
Expire(key) ==
  /\ key \in DOMAIN cache
  /\ cache' = expire(cache, key)
  /\ UNCHANGED <<catalog, req>>
  /\ UNCHANGED loopVars

Init ==
  /\ catalog \in Catalogs
  /\ cache = <<>>
  /\ req = [r \in Requests |-> Idle]
  /\ sources = <<>>
  /\ articles = <<>>
  /\ cards = <<>>
  /\ pos = 0
  /\ picks = <<>>

Next ==
  \/ \E r \in Requests : \E qx \in XQueries, qy \in YQueries : FeedRequest(r, qx, qy)
  \/ \E r \in Requests : GetCacheResolves(r)
  \/ \E r \in Requests : \E arts \in ProviderLists : GetArticlesResolves(r, arts)
  \/ \E r \in Requests : SetCacheResolves(r)
  \/ \E r \in Requests : AwaitRejects(r)
  \/ \E r \in Requests : Finish(r)
  \/ \E key \in DOMAIN cache : Expire(key)

Spec == Init /\ [][Next]_vars

(***************************************************************************)
(* Properties of the card assembly loop (LoopSpec).                        *)
(***************************************************************************)
(* The article content a card shows. *)
Content(c) ==
  [articleId |-> c.articleId, title |-> c.title, imageUrl |-> c.imageUrl,
   url |-> c.url, publishedAt |-> c.publishedAt]
ContentOf(a) ==
  [articleId |-> a.url, title |-> a.title, imageUrl |-> a.urlToImage,
   url |-> a.url, publishedAt |-> a.publishedAt]
(* The identity a card shows. *)
Identity(c) == [sourceId |-> c.sourceId, sourceName |-> c.sourceName, side |-> c.side]
IdentityOf(src) == [sourceId |-> src.id, sourceName |-> src.name, side |-> src.side]

(* Article j comes from source src. *)
From(j, src) == articles[j].source # NullSource /\ articles[j].source.id = src.id
HasArticle(src) == \E j \in 1..Len(articles) : From(j, src)
(* Slots handled so far, and the number of cards pushed before slot i. *)
Handled == 1..pos
EmittedBefore(i) == Cardinality({j \in 1..(i - 1) : picks[j].cardAt # 0})

(* C1: with at least one article, the assembled card list is as long as    *)
(* the list of sources: every slot is filled, by exact match or fallback.  *)
C1_SameLength ==
  (LoopDone /\ Len(articles) > 0) =>
     /\ Len(cards) = Len(sources)
     /\ \A i \in Handled : picks[i].cardAt = i

C1_Witness ==
  /\ LoopDone /\ Len(sources) = Slots /\ Len(articles) = 1
  /\ \E i \in Handled : picks[i].exact
  /\ \E i \in Handled : ~picks[i].exact /\ picks[i].cardAt # 0

(* C3: every card carries the sourceId, sourceName and side of the source  *)
(* whose slot it fills, not those of its article; cards appear in source   *)
(* order, and no card has a sourceId outside the source list.              *)
C3_IdentityFromSource ==
  /\ \A i \in Handled :
        picks[i].cardAt # 0 =>
           /\ picks[i].cardAt = EmittedBefore(i) + 1
           /\ picks[i].cardAt <= Len(cards)
           /\ Identity(cards[picks[i].cardAt]) = IdentityOf(sources[i])
  /\ \A k \in 1..Len(cards) :
        /\ \E i \in Handled : picks[i].cardAt = k
        /\ \E i \in 1..Len(sources) : cards[k].sourceId = sources[i].id

C3_Witness ==
  /\ LoopDone
  /\ \E i \in Handled :
        /\ ~picks[i].exact /\ picks[i].cardAt # 0
        /\ articles[picks[i].index].source # NullSource
        /\ articles[picks[i].index].source.id # sources[i].id
        /\ articles[picks[i].index].source.id \in {sources[j].id : j \in 1..Len(sources)}
        /\ cards[picks[i].cardAt].sourceId = sources[i].id

(* C4: a source that has an article in the list gets the content of the    *)
(* first such article, and no fallback article is used for its slot.       *)
C4_FirstMatch ==
  \A i \in Handled :
     HasArticle(sources[i]) =>
        LET first == CHOOSE j \in 1..Len(articles) :
                        From(j, sources[i]) /\ \A h \in 1..(j - 1) : ~From(h, sources[i])
        IN  /\ picks[i].exact
            /\ picks[i].index = first
            /\ picks[i].cardAt = EmittedBefore(i) + 1
            /\ Content(cards[picks[i].cardAt]) = ContentOf(articles[first])

C4_Witness ==
  /\ LoopDone
  /\ \E i \in Handled :
        /\ picks[i].exact /\ picks[i].index > 1
        /\ \E j \in (picks[i].index + 1)..Len(articles) : From(j, sources[i])

(* C5: a source with no article in a non-empty list gets the content of    *)
(* the article at index (cards already emitted) mod (number of articles);  *)
(* sources [A, B] with the single article of B give a card for A with B's  *)
(* article, then the exact-match card for B.                               *)
C5_Fallback ==
  /\ \A i \in Handled :
        (~HasArticle(sources[i]) /\ Len(articles) > 0) =>
           /\ ~picks[i].exact
           /\ picks[i].cardAt = EmittedBefore(i) + 1
           /\ Content(cards[picks[i].cardAt]) =
                ContentOf(articles[(EmittedBefore(i) % Len(articles)) + 1])
  /\ (LoopDone /\ sources = <<SrcA, SrcB>> /\ articles = <<ArtB1>>) =>
        cards = <<Card(ArtB1, SrcA), Card(ArtB1, SrcB)>>

C5_Witness ==
  /\ LoopDone /\ Len(articles) = 3
  /\ \E i \in Handled :
        /\ ~HasArticle(sources[i])
        /\ EmittedBefore(i) = 3
        /\ Content(cards[picks[i].cardAt]) = ContentOf(articles[1])
  /\ \E i \in Handled : ~HasArticle(sources[i]) /\ EmittedBefore(i) = 1

(* C9 as amended: no slot is skipped while the article list is non-empty,  *)
(* so the number of cards already emitted is the slot's position and the   *)
(* fallback index of every slot is that position mod the number of         *)
(* articles.                                                               *)
C9_NoShift ==
  \A i \in Handled :
     /\ Len(articles) > 0 => picks[i].emitted = i - 1
     /\ (~picks[i].exact /\ picks[i].index # 0) =>
           picks[i].index - 1 = (i - 1) % Len(articles)

C9_Witness ==
  /\ LoopDone /\ Len(articles) = 2
  /\ \E i \in Handled : ~picks[i].exact /\ i = 4 /\ picks[i].index = 2
  /\ \E i \in Handled : picks[i].exact /\ i < 4

(* C9 as stated: there is an input for which the fallback index used at    *)
(* some slot differs from that slot's position mod the number of articles. *)
C9_SomeShift ==
  \E ss \in LoopSourceLists, as \in LoopArticleLists :
     \E i \in 1..Len(ss) :
        /\ find(as, ss[i]) = 0
        /\ Len(as) > 0
        /\ fallbackIndex(loopUpTo(ss, as, i - 1), as) - 1 # (i - 1) % Len(as)

(***************************************************************************)
(* Properties of the gateway (Spec).                                       *)
(***************************************************************************)
(* The handler of q has run its card assembly loop. *)
LoopRan(q) ==
  /\ "getArticlesBySources" \in q.calls
  /\ \/ q.pc = "setCache"
     \/ q.pc = "done" /\ (q.status = 200 \/ "setCache" \in q.calls)

(* C2: the assembled card list is empty exactly when no article was        *)
(* supplied.  The loop runs on a non-empty source list only: an empty one  *)
(* is answered with [] before any article is asked for.                    *)
C2_EmptyIffNoArticles ==
  \A r \in Requests :
     /\ LoopRan(req[r]) =>
          /\ Len(req[r].sources) > 0
          /\ req[r].cards = <<>> <=> req[r].articles = <<>>
     /\ (req[r].pc = "done" /\ req[r].status = 200 /\ req[r].cached = NullText) =>
          (req[r].body = <<>> <=> req[r].articles = <<>>)

C2_Witness ==
  \E r1, r2 \in Requests :
     /\ LoopRan(req[r1]) /\ req[r1].pc = "done"
     /\ req[r1].articles = <<>> /\ req[r1].body = <<>>
     /\ LoopRan(req[r2]) /\ req[r2].pc = "done"
     /\ req[r2].articles # <<>> /\ Len(req[r2].body) = Len(req[r2].sources)

(* C6: a request whose x or y is missing or does not parse to a number is  *)
(* answered 400 before any cache read, source selection, article fetch or  *)
(* card assembly; those are reached with two numbers only.                 *)
Numeric(text) == ~isNaN(parseFloat(text))

C6_RejectedFirst ==
  \A r \in Requests :
     req[r].pc # "idle" =>
        /\ (req[r].qx = MissingParam \/ req[r].qy = <<>>) => req[r].status = 400
        /\ ~(Numeric(req[r].qx) /\ Numeric(req[r].qy)) =>
              /\ req[r].pc = "done" /\ req[r].status = 400
              /\ req[r].calls = {}
              /\ req[r].sources = <<>> /\ req[r].articles = <<>> /\ req[r].cards = <<>>
        /\ req[r].calls # {} => Numeric(req[r].qx) /\ Numeric(req[r].qy)
        /\ req[r].status = 400 => ~(Numeric(req[r].qx) /\ Numeric(req[r].qy))

C6_Witness ==
  \E r1, r2 \in Requests :
     /\ req[r1].pc = "done" /\ req[r1].status = 400
     /\ Numeric(req[r1].qx) /\ ~Numeric(req[r1].qy)
     /\ req[r2].pc = "done" /\ req[r2].status = 400
     /\ req[r2].qx = MissingParam /\ Numeric(req[r2].qy)
     /\ cache # <<>>

(* C7: a /feed request with numeric x and y that completes successfully    *)
(* returns exactly 4 cards (here: whenever the selector gave its 4 sources *)
(* or the answer came from the cache).                                     *)
C7_FourCards ==
  \A r \in Requests :
     (/\ req[r].pc = "done" /\ req[r].status = 200
      /\ (req[r].cached # NullText \/ Len(req[r].sources) = Slots)) =>
        Len(req[r].body) = 4

(* C8: a request that finds an entry under its key answers with exactly    *)
(* the stored cards, calls neither the selector nor the provider and       *)
(* writes nothing to the cache.                                            *)
C8_ServedFromCache ==
  [][\A r \in Requests :
       (/\ req[r].pc = "getCache"
        /\ req'[r] # req[r]
        /\ req'[r].status # 500
        /\ req[r].cacheKey \in DOMAIN cache) =>
          /\ req'[r].pc = "done" /\ req'[r].status = 200
          /\ req'[r].body = cache[req[r].cacheKey].text
          /\ req'[r].calls = {"getCache"}
          /\ req'[r].sources = <<>> /\ req'[r].articles = <<>>
          /\ cache' = cache]_vars

C8_Witness ==
  \E r1, r2 \in Requests :
     /\ req[r1].pc = "done" /\ "setCache" \in req[r1].calls /\ req[r1].status = 200
     /\ req[r2].pc = "done" /\ req[r2].cached # NullText
     /\ req[r2].cacheKey = req[r1].cacheKey
     /\ req[r2].qx # req[r1].qx
     /\ req[r2].body = req[r1].body
     /\ \E i \in 1..Len(req[r1].cards) : req[r1].cards[i].imageUrl = Undefined

(* C10: a /feed request changes the cache only by storing the cards it     *)
(* assembled, at least one; every other step of a request leaves the cache *)
(* as it is, and every entry holds a non-empty card list.                  *)
C10_CacheFrame ==
  [][/\ \A r \in Requests :
          (req'[r] # req[r] /\ cache' # cache) =>
             /\ req[r].pc = "setCache"
             /\ LoopRan(req[r])
             /\ Len(req[r].cards) > 0
             /\ cache' = setCache(cache, req[r].cacheKey, Text(JSONstringify(req[r].cards)))
     /\ \A r \in Requests :
          (req'[r].pc = "done" /\ req[r].pc # "done" /\ "setCache" \notin req'[r].calls) =>
             cache' = cache
     /\ \A k \in DOMAIN cache' : Len(cache'[k].text) > 0]_vars

C10_Witness ==
  /\ cache # <<>>
  /\ \E r1, r2 \in Requests :
       /\ req[r1].pc = "done" /\ req[r1].status = 200 /\ LoopRan(req[r1])
       /\ req[r1].articles = <<>> /\ req[r1].cacheKey \notin DOMAIN cache
       /\ req[r2].pc = "done" /\ req[r2].status = 500 /\ req[r2].calls = {"getCache"}

====
